---- MODULE Spec2Model ----
(***************************************************************************)
(* Suspended Reality: gesture classification (WebcamHandler.detect), the   *)
(* per-hand spring physics and the ping-pong smear field (FluidScene).     *)
(*                                                                         *)
(* Numbers are fixed point: a quantity q of the program is the integer    *)
(* q * One, and every product of two fixed-point quantities is divided by  *)
(* One, rounding toward minus infinity.  Squared lengths that the code     *)
(* only compares are kept as exact integer products.                       *)
(***************************************************************************)
EXTENDS Integers, Sequences, FiniteSets, TLC

VARIABLES
    handsState,     \* handsStateRef.current: the two persistent hand slots
    handData,       \* handDataRef.current: the HandData last published
    videoTime,      \* video.currentTime
    lastVideoTime,  \* lastVideoTimeRef.current
    loopAlive,      \* a requestAnimationFrame(detect) is outstanding
    lastResults,    \* what detectForVideo returned in the latest classification
    params,         \* the FluidParams prop of FluidScene
    physics,        \* physicsRefs.current: the two HandPhysics objects
    fboRead,        \* fboRead.current  (0 = null, else a render target id)
    fboWrite,       \* fboWrite.current (0 = null, else a render target id)
    tex,            \* contents of the two render targets, one RGBA per cell
    smearUniforms,  \* uniforms of the smear material
    uSmearTexture,  \* material.uniforms.uSmearTexture.value (0 = null)
    stretchUniforms,\* uHandPos, uHandGesture, uHandZ, uStretchVector, uStretchAnchor
    renderTarget,   \* gl's current render target (0 = the screen)
    pc,             \* position inside the useFrame callback
    pending,        \* animation-frame callbacks not yet run in this display frame
    tick,           \* display frames begun so far
    clockDelta,     \* useFrame's delta while the display runs at a steady rate
    life,           \* WebcamHandler's effect: initVision's progress and what it holds
    hist            \* observations of the run (what each step read and wrote)

vars == <<handsState, handData, videoTime, lastVideoTime, loopAlive, lastResults,
          params, physics, fboRead, fboWrite, tex, smearUniforms, uSmearTexture,
          stretchUniforms, renderTarget, pc, pending, tick, clockDelta, life, hist>>

----------------------------------------------------------------------------
(* Bounds of the model *)

MaxTicks == 3
MaxHandUpdates == 2
\* the lengths of the scenarios: ticks a pinch is held, ticks without hands,
\* ticks the same landmarks are fed
HoldTicks == 50
QuietTicks == 100
SteadyTicks == 40

----------------------------------------------------------------------------
(* Fixed-point arithmetic *)

One == 10000

Min(a, b) == IF a < b THEN a ELSE b
Max(a, b) == IF a > b THEN a ELSE b
Abs(a) == IF a < 0 THEN 0 - a ELSE a
Clamp(x, lo, hi) == Max(lo, Min(hi, x))

\* Math.sqrt / Math.hypot / length(): the integer square root (rounded down)
RECURSIVE SqrtIter(_, _, _)
SqrtIter(n, lo, hi) ==
    IF lo >= hi THEN lo
    ELSE LET mid == (lo + hi + 1) \div 2
         IN IF mid * mid <= n THEN SqrtIter(n, mid, hi) ELSE SqrtIter(n, lo, mid - 1)

Sqrt(n) == SqrtIter(n, 0, 46340)

\* Lengths above 3.0 are computed on a grid ten times coarser, which keeps the
\* squares inside the 32-bit integers of TLC.
Hypot(dx, dy) ==
    IF Abs(dx) > 3 * One \/ Abs(dy) > 3 * One
    THEN 10 * Sqrt((dx \div 10) * (dx \div 10) + (dy \div 10) * (dy \div 10))
    ELSE Sqrt(dx * dx + dy * dy)

\* the fixed-point product of two fixed-point numbers
Mul(a, b) == (a * b) \div One

----------------------------------------------------------------------------
(* types.ts *)

GestureType == {"NONE", "PALM", "PINCH"}

Slots == {0, 1}

\* DEFAULT_PARAMS, the fields the core reads
DEFAULT_PARAMS ==
    [reboundElasticity |-> 9000, smearIntensity |-> 8000,
     smearDecayTime |-> 500, smearRadius |-> 1500]

----------------------------------------------------------------------------
(* WebcamHandler.tsx: tuning constants and the classifier *)

PINCH_THRESHOLD == 500
PALM_OPEN_FINGER_COUNT == 5
SmoothingOvershoot == One + 7500
SMOOTHING_FACTOR == 2500
VELOCITY_SMOOTHING == 3000
Z_SMOOTHING == 1000
VELOCITY_SCALE == 50
BACK_FACING_CROSS == 200000   \* 0.002, as a product of two fixed-point numbers
LANDMARK_COUNT == 21

\* lerp(start, end, amt) = (1 - amt) * start + amt * end
lerp(start, end, amt) == ((One - amt) * start + amt * end) \div One

\* the initial value of one entry of handsStateRef
InitialHandState ==
    [gesture |-> "NONE", smoothedPos |-> [x |-> 5000, y |-> 5000], smoothedZ |-> 0,
     indexTipState |-> [x |-> 5000, y |-> 5000, vx |-> 0, vy |-> 0]]

\* the HandPoint both App and detect start from
InactiveHandPoint ==
    [gesture |-> "NONE", x |-> 5000, y |-> 5000, z |-> 0,
     indexTip |-> [x |-> 5000, y |-> 5000, vx |-> 0, vy |-> 0]]

\* landmarks[k] of a detected hand (the list is 0-based in the code)
Landmark(frame, k) == frame.lm[k + 1]

\* Reading .x of landmarks[k] throws a TypeError when the list is shorter than the
\* highest index read (20), and so does reading handedness[i][0].categoryName of
\* a missing handedness entry.
Throws(frame) == Len(frame.lm) < LANDMARK_COUNT \/ frame.hand = "missing"

\* 1. proximity
TargetZUnclamped(frame) ==
    LET wrist == Landmark(frame, 0)
        middleMcp == Landmark(frame, 9)
        handSize == Sqrt((wrist.x - middleMcp.x) * (wrist.x - middleMcp.x)
                         + (wrist.y - middleMcp.y) * (wrist.y - middleMcp.y))
    IN (handSize - 500) * 5

TargetZ(frame) ==
    LET wrist == Landmark(frame, 0)
        middleMcp == Landmark(frame, 9)
        handSize == Sqrt((wrist.x - middleMcp.x) * (wrist.x - middleMcp.x)
                         + (wrist.y - middleMcp.y) * (wrist.y - middleMcp.y))
        rawZ == (handSize - 500) * 5
    IN Max(0, Min(One, rawZ))

\* 2. pinch
PinchDist(frame) ==
    Hypot(Landmark(frame, 4).x - Landmark(frame, 8).x,
          Landmark(frame, 4).y - Landmark(frame, 8).y)

IsPinching(frame) == PinchDist(frame) < PINCH_THRESHOLD

\* 3. open palm
FingersIndices ==
    {[tip |-> 4, pip |-> 2], [tip |-> 8, pip |-> 6], [tip |-> 12, pip |-> 10],
     [tip |-> 16, pip |-> 14], [tip |-> 20, pip |-> 18]}

IsExtended(frame, f) ==
    LET wrist == Landmark(frame, 0)
        tip == Landmark(frame, f.tip)
        pip == Landmark(frame, f.pip)
    IN Hypot(tip.x - wrist.x, tip.y - wrist.y) * 10
         > Hypot(pip.x - wrist.x, pip.y - wrist.y) * 11

ExtendedFingersCount(frame) ==
    Cardinality({f \in FingersIndices : IsExtended(frame, f)})

\* 3.5 orientation: z of (wrist->indexMcp) x (wrist->pinkyMcp)
CrossZ(frame) ==
    LET wrist == Landmark(frame, 0)
        ax == Landmark(frame, 5).x - wrist.x
        ay == Landmark(frame, 5).y - wrist.y
        bx == Landmark(frame, 17).x - wrist.x
        by == Landmark(frame, 17).y - wrist.y
    IN ax * by - ay * bx

IsBackFacingCamera(frame) ==
    IF frame.hand = "Left" THEN CrossZ(frame) < 0 - BACK_FACING_CROSS
    ELSE CrossZ(frame) > BACK_FACING_CROSS

IsPalmOpen(frame) ==
    ExtendedFingersCount(frame) >= PALM_OPEN_FINGER_COUNT /\ IsBackFacingCamera(frame)

\* 4. gesture resolution
DetectedGesturePalmFirst(frame) ==
    IF IsPalmOpen(frame) THEN "PALM"
    ELSE IF IsPinching(frame) THEN "PINCH"
    ELSE "NONE"

DetectedGesture(frame) ==
    IF IsPinching(frame) THEN "PINCH"
    ELSE IF IsPalmOpen(frame) THEN "PALM"
    ELSE "NONE"

TargetPos(frame) ==
    IF IsPinching(frame)
    THEN [x |-> (Landmark(frame, 4).x + Landmark(frame, 8).x) \div 2,
          y |-> (Landmark(frame, 4).y + Landmark(frame, 8).y) \div 2]
    ELSE [x |-> Landmark(frame, 9).x, y |-> Landmark(frame, 9).y]

\* the branch i < foundHandsCount of the slot loop
OccupiedSlot(state, frame) ==
    LET target == TargetPos(frame)
        indexTip == Landmark(frame, 8)
        rawVx == indexTip.x - state.indexTipState.x
        rawVy == indexTip.y - state.indexTipState.y
    IN [gesture |-> DetectedGesture(frame),
        smoothedPos |-> [x |-> lerp(state.smoothedPos.x, target.x, SMOOTHING_FACTOR),
                         y |-> lerp(state.smoothedPos.y, target.y, SMOOTHING_FACTOR)],
        smoothedZ |-> lerp(state.smoothedZ, TargetZ(frame), Z_SMOOTHING),
        indexTipState |->
            [x |-> indexTip.x, y |-> indexTip.y,
             vx |-> lerp(state.indexTipState.vx, rawVx * VELOCITY_SCALE, VELOCITY_SMOOTHING),
             vy |-> lerp(state.indexTipState.vy, rawVy * VELOCITY_SCALE, VELOCITY_SMOOTHING)]]

\* the branch "Lost hand" of the slot loop
LostSlotKeepsVelocity(state) ==
    [state EXCEPT !.gesture = "NONE", !.smoothedZ = lerp(state.smoothedZ, 0, Z_SMOOTHING)]

LostSlotKeepsGesture(state) ==
    [state EXCEPT !.smoothedZ = lerp(state.smoothedZ, 0, Z_SMOOTHING),
                  !.indexTipState.vx = 0, !.indexTipState.vy = 0]

LostSlot(state) ==
    [state EXCEPT !.gesture = "NONE", !.smoothedZ = lerp(state.smoothedZ, 0, Z_SMOOTHING),
                  !.indexTipState.vx = 0, !.indexTipState.vy = 0]

\* currentFrameData[i], built from the slot's updated state
HandPointOf(state) ==
    [gesture |-> state.gesture, x |-> state.smoothedPos.x, y |-> state.smoothedPos.y,
     z |-> state.smoothedZ,
     indexTip |-> [x |-> state.indexTipState.x, y |-> state.indexTipState.y,
                   vx |-> state.indexTipState.vx, vy |-> state.indexTipState.vy]]

\* one pass of the slot loop over slot i
SlotUpdate(state, results, i) ==
    IF i < Len(results) THEN OccupiedSlot(state, results[i + 1]) ELSE LostSlot(state)

\* the slot at which the loop throws, or 2 when it runs to the end
ThrowIndex(results) ==
    IF Len(results) > 0 /\ Throws(results[1]) THEN 0
    ELSE IF Len(results) > 1 /\ Throws(results[2]) THEN 1
    ELSE 2

\* handsStateRef after the loop: slots before the throwing one are updated
SlotsAfter(hs, results) ==
    [i \in Slots |-> IF i < ThrowIndex(results) THEN SlotUpdate(hs[i], results, i) ELSE hs[i]]

----------------------------------------------------------------------------
(* FluidScene: HandPhysics *)

SPRING_K == 10
MAX_DT == 1000

Vec(x, y) == [x |-> x, y |-> y]

LengthSq(v) == v.x * v.x + v.y * v.y

\* new HandPhysics()
InitialPhysics ==
    [anchorPoint |-> Vec(5000, 5000), currentStretch |-> Vec(0, 0),
     velocity |-> Vec(0, 0), isDragging |-> FALSE]

\* the first PINCH tick of a drag: anchor at the target, motion cleared
DragStartKeepsMotion(ph, targetPos) ==
    [ph EXCEPT !.anchorPoint = targetPos, !.isDragging = TRUE]

DragStartLeavesIdle(ph, targetPos) ==
    [anchorPoint |-> targetPos, currentStretch |-> Vec(0, 0),
     velocity |-> Vec(0, 0), isDragging |-> FALSE]

DragStart(ph, targetPos) ==
    [anchorPoint |-> targetPos, currentStretch |-> Vec(0, 0),
     velocity |-> Vec(0, 0), isDragging |-> TRUE]

\* a later PINCH tick: currentStretch.subVectors(targetPos, anchorPoint)
DragStretchIntegrated(ph, targetPos) ==
    Vec(ph.currentStretch.x + targetPos.x - ph.anchorPoint.x,
        ph.currentStretch.y + targetPos.y - ph.anchorPoint.y)

DragStretch(ph, targetPos) ==
    Vec(targetPos.x - ph.anchorPoint.x, targetPos.y - ph.anchorPoint.y)

\* damping = 5.0 * (1.05 - params.reboundElasticity)
Damping(p) == 5 * (10500 - p.reboundElasticity)

\* the snap test: lengthSq() of the stretch below 0.00001 and of the velocity below 0.0001
IsSettledNever(str, vel) == FALSE

IsSettled(str, vel) == LengthSq(str) < 1000 /\ LengthSq(vel) < 10000

\* HandPhysics.update(handPos, gesture, params, dt)
PhysicsUpdate(ph, handPos, gesture, p, dt) ==
    LET targetPos == Vec(handPos.x, One - handPos.y)
    IN IF gesture = "PINCH"
       THEN IF ~ph.isDragging
            THEN DragStart(ph, targetPos)
            ELSE [ph EXCEPT !.currentStretch = DragStretch(ph, targetPos)]
       ELSE LET damping == Damping(p)
                force == Vec(ph.currentStretch.x * (0 - SPRING_K),
                             ph.currentStretch.y * (0 - SPRING_K))
                dampingForce == Vec(Mul(ph.velocity.x, 0 - damping),
                                    Mul(ph.velocity.y, 0 - damping))
                acceleration == Vec(force.x + dampingForce.x, force.y + dampingForce.y)
                vel == Vec(ph.velocity.x + Mul(acceleration.x, dt),
                           ph.velocity.y + Mul(acceleration.y, dt))
                str == Vec(ph.currentStretch.x + Mul(vel.x, dt),
                           ph.currentStretch.y + Mul(vel.y, dt))
            IN IF IsSettled(str, vel)
               THEN [ph EXCEPT !.isDragging = FALSE, !.currentStretch = Vec(0, 0),
                               !.velocity = Vec(0, 0)]
               ELSE [ph EXCEPT !.isDragging = FALSE, !.currentStretch = str,
                               !.velocity = vel]

\* stretch and velocity are both exactly (0,0)
AtRest(ph) == ph.currentStretch = Vec(0, 0) /\ ph.velocity = Vec(0, 0)

\* 16 / damping seconds: the envelope exp(-damping t / 2) of the spring falls from
\* the largest stretch of the unit square below the snap threshold well within it
SettleTime(p) == IF Damping(p) > 0 THEN (16 * One * One) \div Damping(p) ELSE 0

----------------------------------------------------------------------------
(* FluidScene: the smear field *)

\* the render targets created by the FBO effect
Targets == {1, 2}

\* the cells of the field the model follows: vUv of each
CellUV == <<Vec(5000, 5000), Vec(2000, 8000)>>

Cells == DOMAIN CellUV

\* a channel that holds no number (0/0)
NaN == -100000000

\* a freshly created render target reads as zeros
EmptyCell == [r |-> 0, g |-> 0, b |-> 0, a |-> 0]

\* what normalize() of a zero-length vector can yield: not-a-number, or zero
UndefVecs == {Vec(NaN, NaN), Vec(0, 0)}

\* GLSL normalize(v); undef is the outcome for a zero-length v
Normalize(v, undef) ==
    LET len == Hypot(v.x, v.y)
    IN IF v.x = NaN \/ v.y = NaN THEN Vec(NaN, NaN)
       ELSE IF len = 0 THEN undef
       ELSE Vec((v.x * One) \div len, (v.y * One) \div len)

\* GLSL smoothstep(edge0, edge1, x) with edge0 > edge1, as the drivers compute it:
\* t = clamp((x - edge0) / (edge1 - edge0), 0, 1); t * t * (3 - 2 t)
Smoothstep(edge0, edge1, x) ==
    LET t == Clamp(((edge0 - x) * One) \div (edge0 - edge1), 0, One)
    IN Mul(Mul(t, t), 3 * One - 2 * t)

\* GLSL mix(x, y, a) = x * (1 - a) + y * a, on one channel
Mix(x, y, a) ==
    IF x = NaN \/ y = NaN THEN NaN ELSE (x * (One - a) + y * a) \div One

\* brush weight of hand i on the cell at uv (0 when the hand is too slow or too far)
BrushAtThreshold(u, uv, i) ==
    LET handPos == Vec(u.uIndexPos[i].x, One - u.uIndexPos[i].y)
        dist == Hypot(uv.x - handPos.x, uv.y - handPos.y)
        velMag == Hypot(u.uIndexVel[i].x, u.uIndexVel[i].y)
    IN IF velMag >= 200 THEN Smoothstep(u.uRadius, Mul(u.uRadius, 4000), dist) ELSE 0

Brush(u, uv, i) ==
    LET handPos == Vec(u.uIndexPos[i].x, One - u.uIndexPos[i].y)
        dist == Hypot(uv.x - handPos.x, uv.y - handPos.y)
        velMag == Hypot(u.uIndexVel[i].x, u.uIndexVel[i].y)
    IN IF velMag > 200 THEN Smoothstep(u.uRadius, Mul(u.uRadius, 4000), dist) ELSE 0

TotalBrush(u, uv) == Brush(u, uv, 0) + Brush(u, uv, 1)

\* the decay step: new alpha before any brush is added
DecayedAlphaGrows(last, u) ==
    LET momentumFactor == One + last.b * 2
        dynamicDecay == (u.uDecay * One) \div momentumFactor
        newAlpha == Mul(last.a, One + dynamicDecay)
    IN IF newAlpha < 50 THEN 0 ELSE newAlpha

DecayedAlpha(last, u) ==
    LET momentumFactor == One + last.b * 2
        dynamicDecay == (u.uDecay * One) \div momentumFactor
        newAlpha == Mul(last.a, One - dynamicDecay)
    IN IF newAlpha < 50 THEN 0 ELSE newAlpha

\* accumulate intensity
RaisedAlphaUnclamped(newAlpha, u, totalBrush) == newAlpha + Mul(u.uIntensity, totalBrush)

RaisedAlpha(newAlpha, u, totalBrush) ==
    Min(One, newAlpha + Mul(u.uIntensity, totalBrush))

\* main() of smearFragmentShader for the cell at uv, reading lastState
SmearCell(last, uv, u, undef) ==
    LET newAlpha == DecayedAlpha(last, u)
        b0 == Brush(u, uv, 0)
        b1 == Brush(u, uv, 1)
        dir0 == Normalize(u.uIndexVel[0], undef)
        dir1 == Normalize(u.uIndexVel[1], undef)
        totalVel == Vec((IF b0 > 0 THEN Mul(dir0.x, b0) ELSE 0)
                          + (IF b1 > 0 THEN Mul(dir1.x, b1) ELSE 0),
                        (IF b0 > 0 THEN Mul(dir0.y, b0) ELSE 0)
                          + (IF b1 > 0 THEN Mul(dir1.y, b1) ELSE 0))
        totalBrush == b0 + b1
        maxInputSpeed ==
            Max(IF b0 > 0 THEN Hypot(u.uIndexVel[0].x, u.uIndexVel[0].y) ELSE 0,
                IF b1 > 0 THEN Hypot(u.uIndexVel[1].x, u.uIndexVel[1].y) ELSE 0)
        n == Normalize(totalVel, undef)
        encodedDir == Vec(IF n.x = NaN THEN NaN ELSE Mul(n.x, 5000) + 5000,
                          IF n.y = NaN THEN NaN ELSE Mul(n.y, 5000) + 5000)
        encodedSpeed == Clamp(maxInputSpeed, 0, One)
        amt == Min(One, Mul(totalBrush, 25000))
    IN IF totalBrush > 0
       THEN [r |-> Mix(last.r, encodedDir.x, amt), g |-> Mix(last.g, encodedDir.y, amt),
             b |-> Mix(last.b, encodedSpeed, amt),
             a |-> RaisedAlpha(newAlpha, u, totalBrush)]
       ELSE [r |-> last.r, g |-> last.g, b |-> last.b, a |-> newAlpha]

----------------------------------------------------------------------------
(* Landmark frames fed to the classifier (the results of detectForVideo) *)

\* an open right hand, back of the hand to the camera
OpenLandmarks ==
    << Vec(5000, 9000),
       Vec(4400, 8600), Vec(4000, 8000), Vec(3700, 7400), Vec(3400, 6800),
       Vec(4500, 7000), Vec(4400, 6000), Vec(4350, 5400), Vec(4300, 4800),
       Vec(5000, 6900), Vec(5000, 5800), Vec(5000, 5200), Vec(5000, 4500),
       Vec(5500, 7000), Vec(5600, 6000), Vec(5650, 5400), Vec(5700, 4900),
       Vec(6000, 7200), Vec(6200, 6400), Vec(6300, 6000), Vec(6400, 5600) >>

\* a fist: every fingertip folded back toward the wrist
FistLandmarks ==
    << Vec(5000, 9000),
       Vec(4400, 8600), Vec(4000, 8000), Vec(3900, 7900), Vec(3800, 7800),
       Vec(4500, 7000), Vec(4400, 6400), Vec(4500, 7000), Vec(4600, 7600),
       Vec(5000, 6900), Vec(5000, 6300), Vec(5000, 7000), Vec(5000, 7700),
       Vec(5500, 7000), Vec(5600, 6400), Vec(5550, 7100), Vec(5500, 7700),
       Vec(6000, 7200), Vec(6100, 6700), Vec(6000, 7300), Vec(5900, 7800) >>

\* lm with landmark k (0-based) moved to point q
WithLandmark(lm, k, q) == [lm EXCEPT ![k + 1] = q]

\* lm mirrored about the vertical line x = 0.5
Mirrored(lm) == [k \in DOMAIN lm |-> Vec(One - lm[k].x, lm[k].y)]

\* lm translated by (dx, dy)
Shifted(lm, dx, dy) == [k \in DOMAIN lm |-> Vec(lm[k].x + dx, lm[k].y + dy)]

Frame(lm, hand) == [lm |-> lm, hand |-> hand]

OpenRight == Frame(OpenLandmarks, "Right")
OpenRightMoved == Frame(Shifted(OpenLandmarks, 200, -100), "Right")
OpenWrongSide == Frame(OpenLandmarks, "Left")
OpenLeft == Frame(Mirrored(OpenLandmarks), "Left")
\* thumb tip 0.022 from the index tip, all five fingers still extended
PinchOpen == Frame(WithLandmark(OpenLandmarks, 4, Vec(4400, 5000)), "Right")
\* thumb tip exactly 0.05 from the index tip
PinchEdge == Frame(WithLandmark(OpenLandmarks, 4, Vec(4600, 5200)), "Right")
Fist == Frame(FistLandmarks, "Right")
PinchFist == Frame(WithLandmark(FistLandmarks, 4, Vec(4700, 7700)), "Left")
PinchFistMoved == Frame(Shifted(WithLandmark(FistLandmarks, 4, Vec(4700, 7700)), 600, 400), "Left")

\* frames the vision task is specified to return: 21 landmarks and a handedness
Frames == {OpenRight, OpenRightMoved, OpenWrongSide, OpenLeft, PinchOpen, PinchEdge,
           Fist, PinchFist, PinchFistMoved}

SecondHandFrames == {OpenLeft, PinchFist}

\* results.landmarks / results.handedness for 0, 1 or 2 detected hands
Results ==
    {<<>>} \cup {<<f>> : f \in Frames}
           \cup {<<f, g>> : f \in {OpenRight, PinchOpen, Fist}, g \in SecondHandFrames}

\* the results the whole pipeline is run on
PipelineResults ==
    {<<>>, <<OpenRight>>, <<PinchOpen>>, <<PinchFistMoved>>, <<OpenRightMoved, PinchFist>>,
     <<Fist, OpenLeft>>}

\* every landmark coordinate of the frame lies within [0,1]
InUnit(frame) ==
    \A k \in DOMAIN frame.lm :
        /\ frame.lm[k].x >= 0 /\ frame.lm[k].x <= One
        /\ frame.lm[k].y >= 0 /\ frame.lm[k].y <= One

\* a hand spanning the image: wrist in one corner, middle knuckle in the opposite one
EdgeFrame ==
    Frame(WithLandmark(WithLandmark(OpenLandmarks, 0, Vec(One, One)), 9, Vec(0, 0)), "Right")

\* a hand half out of the image: landmarks left of x = 0
OffscreenFrame == Frame(Shifted(OpenLandmarks, -6000, 0), "Right")

\* the results fed when the same landmarks are held still
SteadyResults == Results \cup {<<EdgeFrame>>, <<OffscreenFrame>>}

\* frames outside that contract: a short landmark list, a missing handedness entry
ShortFrame == Frame(SubSeq(OpenLandmarks, 1, 20), "Right")
NoHandednessFrame == Frame(OpenLandmarks, "missing")

MalformedResults ==
    {<<ShortFrame>>, <<NoHandednessFrame>>, <<OpenRight, ShortFrame>>,
     <<ShortFrame, PinchFist>>, <<PinchOpen, NoHandednessFrame>>}

\* useFrame's delta, in fixed-point seconds: a 60 Hz frame and a long gap
Deltas == {160, 2000}

----------------------------------------------------------------------------
(* Initial state: WebcamHandler has started its loop, FluidScene is mounted  *)
(* and its FBO effect has not run yet.                                      *)

InitialSmearUniforms ==
    [uLastFrame |-> 0,
     uIndexPos |-> [i \in Slots |-> Vec(0, 0)],
     uIndexVel |-> [i \in Slots |-> Vec(0, 0)],
     uDecay |-> 100, uRadius |-> 1000, uIntensity |-> 5000]

InitialStretchUniforms ==
    [uHandPos |-> [i \in Slots |-> Vec(5000, 5000)],
     uHandGesture |-> [i \in Slots |-> 0],
     uHandZ |-> [i \in Slots |-> 0],
     uStretchVector |-> [i \in Slots |-> Vec(0, 0)],
     uStretchAnchor |-> [i \in Slots |-> Vec(5000, 5000)]]

InitialHist ==
    [lastOp |-> "init",
     prevHands |-> [i \in Slots |-> InitialHandState],   \* handsState before the last detect
     prevData |-> [i \in Slots |-> InactiveHandPoint],   \* handData before the last detect
     prevFound |-> 0,                \* hands found by the classification before the last
     detectRan |-> "no",             \* what detect did in this display frame
     consumed |-> 0,                 \* useFrame calls that read the current handData
     published |-> 0,                \* onHandUpdate calls so far
     steps |-> <<>>,                 \* steps of the current useFrame call, in order
     physicsInput |-> [i \in Slots |-> InactiveHandPoint], \* hands read by the physics step
     sampled |-> 0,                  \* the target bound as uLastFrame in the last smear pass
     rendered |-> 0,                 \* the target the last smear pass rendered into
     swaps |-> 0,                    \* swaps done by the current useFrame call
     prevTex |-> [c \in Cells |-> EmptyCell],  \* the cells the last smear pass read
     unbrushed |-> [c \in Cells |-> 0],        \* smear passes since the cell last had brush weight
     handUpdates |-> 0,
     prevPhysics |-> [i \in Slots |-> InitialPhysics],  \* physics before the last physics step
     stepDt |-> 0,                   \* the dt of the last physics step
     held |-> [i \in Slots |-> 0],   \* physics steps in a row that saw PINCH
     simTime |-> [i \in Slots |-> 0],\* sum of dt over the steps of the current rebound
     steady |-> 0,                   \* classifications in a row with the same results
     quiet |-> 0,                    \* classifications in a row without any hand
     fedInUnit |-> TRUE]             \* every landmark classified so far was within [0,1]

\* WebcamHandler's effect as it begins: initVision not yet at its first await
InitialLife ==
    [step |-> "start",        \* the await initVision is suspended at, or "returned"
     isMounted |-> TRUE,      \* the effect's flag, cleared by its cleanup
     stream |-> "none",       \* the camera stream's tracks: none, live or stopped
     srcObject |-> FALSE,     \* video.srcObject holds the stream
     landmarker |-> "none",   \* handLandmarkerRef.current: none, open or closed
     called |-> {},           \* the callbacks of App invoked so far
     late |-> {}]             \* the callbacks invoked after the cleanup

\* the effect once initVision has run to its end and started the detect loop
MountedLife ==
    [step |-> "returned", isMounted |-> TRUE, stream |-> "live", srcObject |-> TRUE,
     landmarker |-> "open", called |-> {"onVideoReady"}, late |-> {}]

Init ==
    /\ handsState = [i \in Slots |-> InitialHandState]
    /\ handData = [i \in Slots |-> InactiveHandPoint]
    /\ videoTime = 0
    /\ lastVideoTime = -1
    /\ loopAlive = TRUE
    /\ lastResults = <<>>
    /\ params = DEFAULT_PARAMS
    /\ physics = [i \in Slots |-> InitialPhysics]
    /\ fboRead = 0
    /\ fboWrite = 0
    /\ tex = [t \in Targets |-> [c \in Cells |-> EmptyCell]]
    /\ smearUniforms = InitialSmearUniforms
    /\ uSmearTexture = 0
    /\ stretchUniforms = InitialStretchUniforms
    /\ renderTarget = 0
    /\ pc = "idle"
    /\ pending = {}
    /\ tick = 0
    /\ clockDelta = 160
    /\ life = MountedLife
    /\ hist = InitialHist

----------------------------------------------------------------------------
(* The browser *)

\* a display frame begins: every outstanding requestAnimationFrame callback among
\* loops is due (the detect loop's only while it is still rescheduled)
BeginFrame(loops) ==
    /\ pending = {} /\ pc = "idle" /\ tick < MaxTicks
    /\ pending' = loops \ (IF loopAlive THEN {} ELSE {"detect"})
    /\ tick' = tick + 1
    /\ hist' = [hist EXCEPT !.lastOp = "raf", !.detectRan = "no", !.steps = <<>>,
                            !.swaps = 0]
    /\ UNCHANGED <<handsState, handData, videoTime, lastVideoTime, loopAlive, lastResults,
                   params, physics, fboRead, fboWrite, tex, smearUniforms, uSmearTexture,
                   stretchUniforms, renderTarget, pc, clockDelta, life>>

\* both loops run: the render loop of the canvas and the detect loop
AnimationFrame == BeginFrame({"frame", "detect"})

\* the detect loop on its own
DetectLoopFrame == BeginFrame({"detect"})

\* the camera delivers a frame: video.currentTime advances
CameraFrame ==
    /\ pc = "idle" /\ videoTime = lastVideoTime
    /\ life.stream = "live" /\ life.srcObject
    /\ videoTime' = videoTime + 1
    /\ hist' = [hist EXCEPT !.lastOp = "camera"]
    /\ UNCHANGED <<handsState, handData, lastVideoTime, loopAlive, lastResults, params,
                   physics, fboRead, fboWrite, tex, smearUniforms, uSmearTexture,
                   stretchUniforms, renderTarget, pc, pending, tick, clockDelta, life>>

----------------------------------------------------------------------------
(* WebcamHandler.detect *)

\* (a detect that treats a repeated video frame as a frame without hands)
DetectSkipDecays ==
    /\ "detect" \in pending /\ pc = "idle"
    /\ videoTime = lastVideoTime
    /\ pending' = pending \ {"detect"}
    /\ handsState' = [i \in Slots |-> LostSlot(handsState[i])]
    /\ handData' = [i \in Slots |-> HandPointOf(handsState'[i])]
    /\ hist' = [hist EXCEPT !.lastOp = "skip", !.detectRan = "skip",
                            !.prevHands = handsState, !.prevData = handData]
    /\ UNCHANGED <<videoTime, lastVideoTime, loopAlive, lastResults,
                   params, physics, fboRead, fboWrite, tex, smearUniforms, uSmearTexture,
                   stretchUniforms, renderTarget, pc, tick, clockDelta, life>>

\* detect() when video.currentTime has not changed: nothing but the reschedule
DetectSkip ==
    /\ "detect" \in pending /\ pc = "idle"
    /\ videoTime = lastVideoTime
    /\ pending' = pending \ {"detect"}
    /\ hist' = [hist EXCEPT !.lastOp = "skip", !.detectRan = "skip",
                            !.prevHands = handsState, !.prevData = handData]
    /\ UNCHANGED <<handsState, handData, videoTime, lastVideoTime, loopAlive, lastResults,
                   params, physics, fboRead, fboWrite, tex, smearUniforms, uSmearTexture,
                   stretchUniforms, renderTarget, pc, tick, clockDelta, life>>

\* detect() on a new video frame whose detection result is results
DetectClassify(results) ==
    /\ "detect" \in pending /\ pc = "idle"
    /\ videoTime # lastVideoTime
    /\ lastVideoTime' = videoTime
    /\ lastResults' = results
    /\ handsState' = SlotsAfter(handsState, results)
    /\ pending' = pending \ {"detect"}
    /\ IF ThrowIndex(results) = 2
       THEN \* the loop ran to the end: publish, then reschedule
            /\ handData' = [i \in Slots |-> HandPointOf(handsState'[i])]
            /\ loopAlive' = TRUE
            /\ hist' = [hist EXCEPT !.lastOp = "classify", !.prevHands = handsState,
                                    !.prevData = handData,
                                    !.prevFound = Len(lastResults),
                                    !.detectRan = "classify", !.consumed = 0,
                                    !.published = Min(@ + 1, MaxTicks + 1),
                                    !.steady = IF results = lastResults /\ hist.published > 0
                                               THEN Min(@ + 1, SteadyTicks) ELSE 0,
                                    !.quiet = IF results = <<>>
                                              THEN Min(@ + 1, QuietTicks) ELSE 0,
                                    !.fedInUnit =
                                        @ /\ \A k \in DOMAIN results : InUnit(results[k])]
       ELSE \* a TypeError left detect before onHandUpdate and requestAnimationFrame
            /\ handData' = handData
            /\ loopAlive' = FALSE
            /\ hist' = [hist EXCEPT !.lastOp = "throw", !.detectRan = "throw",
                                    !.prevHands = handsState, !.prevData = handData,
                                    !.prevFound = Len(lastResults)]
    /\ UNCHANGED <<videoTime, params, physics, fboRead, fboWrite, tex, smearUniforms,
                   uSmearTexture, stretchUniforms, renderTarget, pc, tick, clockDelta, life>>

Detect == \E results \in Results : DetectClassify(results)

DetectSome == \E results \in PipelineResults : DetectClassify(results)

DetectAny == \E results \in Results \cup MalformedResults : DetectClassify(results)

----------------------------------------------------------------------------
(* WebcamHandler: the effect that opens the camera and creates the hand landmarker *)

\* a callback of App (onVideoReady, onError) is invoked
Invoke(l, callback) ==
    [l EXCEPT !.called = @ \cup {callback},
              !.late = IF l.isMounted THEN @ ELSE @ \cup {callback}]

\* the catch block: if (isMounted) onError(...)
CatchError(l) == IF l.isMounted THEN Invoke(l, "onError") ELSE l

\* (a continuation that starts the loop without looking at isMounted)
StartsLoopAlways(l) == TRUE

\* if (isMounted) startLoop()
StartsLoop(l) == l.isMounted

\* the effect runs: initVision() up to its first await; supported tells whether
\* navigator.mediaDevices.getUserMedia exists
InitVision(supported) ==
    /\ life.step = "start"
    /\ life' = IF supported
               THEN [life EXCEPT !.step = "getUserMedia"]
               ELSE [CatchError(life) EXCEPT !.step = "returned"]
    /\ hist' = [hist EXCEPT !.lastOp = "initVision"]
    /\ UNCHANGED <<handsState, handData, videoTime, lastVideoTime, loopAlive, lastResults,
                   params, physics, fboRead, fboWrite, tex, smearUniforms, uSmearTexture,
                   stretchUniforms, renderTarget, pc, pending, tick, clockDelta>>

\* getUserMedia resolves with a stream: stopped at once after the cleanup, else
\* assigned to video.srcObject
CameraResolved ==
    /\ life.step = "getUserMedia"
    /\ life' = IF ~life.isMounted
               THEN [life EXCEPT !.stream = "stopped", !.step = "returned"]
               ELSE [life EXCEPT !.stream = "live", !.srcObject = TRUE, !.step = "play"]
    /\ hist' = [hist EXCEPT !.lastOp = "cameraResolved"]
    /\ UNCHANGED <<handsState, handData, videoTime, lastVideoTime, loopAlive, lastResults,
                   params, physics, fboRead, fboWrite, tex, smearUniforms, uSmearTexture,
                   stretchUniforms, renderTarget, pc, pending, tick, clockDelta>>

\* the video's metadata loaded and play() resolved: onVideoReady, then the wasm fileset
PlayResolved ==
    /\ life.step = "play"
    /\ life' = IF ~life.isMounted
               THEN [life EXCEPT !.step = "returned"]
               ELSE [Invoke(life, "onVideoReady") EXCEPT !.step = "fileset"]
    /\ hist' = [hist EXCEPT !.lastOp = "playResolved"]
    /\ UNCHANGED <<handsState, handData, videoTime, lastVideoTime, loopAlive, lastResults,
                   params, physics, fboRead, fboWrite, tex, smearUniforms, uSmearTexture,
                   stretchUniforms, renderTarget, pc, pending, tick, clockDelta>>

\* FilesetResolver.forVisionTasks resolves: HandLandmarker.createFromOptions is called
FilesetResolved ==
    /\ life.step = "fileset"
    /\ life' = IF ~life.isMounted
               THEN [life EXCEPT !.step = "returned"]
               ELSE [life EXCEPT !.step = "landmarker"]
    /\ hist' = [hist EXCEPT !.lastOp = "filesetResolved"]
    /\ UNCHANGED <<handsState, handData, videoTime, lastVideoTime, loopAlive, lastResults,
                   params, physics, fboRead, fboWrite, tex, smearUniforms, uSmearTexture,
                   stretchUniforms, renderTarget, pc, pending, tick, clockDelta>>

\* createFromOptions resolves: the landmarker is stored in handLandmarkerRef, then
\* startLoop() calls detect() at once (the call is due before anything else runs)
LandmarkerResolved ==
    /\ life.step = "landmarker"
    /\ pc = "idle"
    /\ life' = [life EXCEPT !.landmarker = "open", !.step = "returned"]
    /\ IF StartsLoop(life)
       THEN loopAlive' = TRUE /\ pending' = pending \cup {"detect"}
       ELSE UNCHANGED <<loopAlive, pending>>
    /\ hist' = [hist EXCEPT !.lastOp = "landmarkerResolved"]
    /\ UNCHANGED <<handsState, handData, videoTime, lastVideoTime, lastResults,
                   params, physics, fboRead, fboWrite, tex, smearUniforms, uSmearTexture,
                   stretchUniforms, renderTarget, pc, tick, clockDelta>>

\* the promise initVision awaits rejects (permission denied, video error, a failed
\* download): the catch block
InitRejected ==
    /\ life.step \in {"getUserMedia", "play", "fileset", "landmarker"}
    /\ life' = [CatchError(life) EXCEPT !.step = "returned"]
    /\ hist' = [hist EXCEPT !.lastOp = "initRejected"]
    /\ UNCHANGED <<handsState, handData, videoTime, lastVideoTime, loopAlive, lastResults,
                   params, physics, fboRead, fboWrite, tex, smearUniforms, uSmearTexture,
                   stretchUniforms, renderTarget, pc, pending, tick, clockDelta>>

\* the effect's cleanup, between two tasks of the page. refAttached tells whether
\* videoRef.current still holds the video element when React runs the cleanup.
Cleanup(refAttached) ==
    /\ life.isMounted /\ life.step # "start"
    /\ pending = {} /\ pc = "idle"
    /\ loopAlive' = FALSE
    /\ life' = [life EXCEPT
                  !.isMounted = FALSE,
                  !.stream = IF refAttached /\ life.srcObject /\ @ = "live"
                             THEN "stopped" ELSE @,
                  !.landmarker = IF @ = "open" THEN "closed" ELSE @]
    /\ hist' = [hist EXCEPT !.lastOp = "cleanup"]
    /\ UNCHANGED <<handsState, handData, videoTime, lastVideoTime, lastResults,
                   params, physics, fboRead, fboWrite, tex, smearUniforms, uSmearTexture,
                   stretchUniforms, renderTarget, pc, pending, tick, clockDelta>>

Start == \E supported \in BOOLEAN : InitVision(supported)

Unmount == \E refAttached \in BOOLEAN : Cleanup(refAttached)

----------------------------------------------------------------------------
(* FluidScene: the FBO effect and the useFrame callback *)

\* the FBO effect: two render targets and the smear material are created
AllocateFBO ==
    /\ fboRead = 0 /\ pc = "idle"
    /\ fboRead' = 1
    /\ fboWrite' = 2
    /\ tex' = [t \in Targets |-> [c \in Cells |-> EmptyCell]]
    /\ smearUniforms' = InitialSmearUniforms
    /\ hist' = [hist EXCEPT !.lastOp = "alloc"]
    /\ UNCHANGED <<handsState, handData, videoTime, lastVideoTime, loopAlive, lastResults,
                   params, physics, uSmearTexture, stretchUniforms, renderTarget, pc,
                   pending, tick, clockDelta, life>>

\* the order of the four sections of the callback
NextPcBindBeforeSwap(step) ==
    CASE step = "physics" -> "smear"
      [] step = "smear" -> "composite"
      [] step = "composite" -> "swap"
      [] step = "swap" -> "idle"

NextPc(step) ==
    CASE step = "physics" -> "smear"
      [] step = "smear" -> "swap"
      [] step = "swap" -> "composite"
      [] step = "composite" -> "idle"

\* the callback returns when its last section is done
StillPending(nextPc) == IF nextPc = "idle" THEN pending \ {"frame"} ELSE pending

\* the early return while the mesh or the render targets do not exist
FrameSkip ==
    /\ "frame" \in pending /\ pc = "idle"
    /\ fboRead = 0 \/ fboWrite = 0
    /\ pending' = pending \ {"frame"}
    /\ hist' = [hist EXCEPT !.lastOp = "frameskip"]
    /\ UNCHANGED <<handsState, handData, videoTime, lastVideoTime, loopAlive, lastResults,
                   params, physics, fboRead, fboWrite, tex, smearUniforms, uSmearTexture,
                   stretchUniforms, renderTarget, pc, tick, clockDelta, life>>

GestureInt(gesture) == IF gesture = "PINCH" THEN 2 ELSE IF gesture = "PALM" THEN 1 ELSE 0

\* 1. UPDATE PHYSICS & UNIFORMS, with the clock's delta
FramePhysics(delta) ==
    /\ "frame" \in pending /\ pc = "idle"
    /\ fboRead # 0 /\ fboWrite # 0
    /\ LET hands == handData
           dt == Min(delta, MAX_DT)
       IN /\ physics' = [i \in Slots |->
                            PhysicsUpdate(physics[i], hands[i], hands[i].gesture, params, dt)]
          /\ stretchUniforms' =
                [uHandPos |-> [i \in Slots |-> Vec(hands[i].x, One - hands[i].y)],
                 uHandGesture |-> [i \in Slots |-> GestureInt(hands[i].gesture)],
                 uHandZ |-> [i \in Slots |-> hands[i].z],
                 uStretchVector |-> [i \in Slots |-> physics'[i].currentStretch],
                 uStretchAnchor |-> [i \in Slots |-> physics'[i].anchorPoint]]
          /\ smearUniforms' =
                [smearUniforms EXCEPT
                    !.uIndexPos = [i \in Slots |-> Vec(hands[i].indexTip.x, hands[i].indexTip.y)],
                    !.uIndexVel = [i \in Slots |-> Vec(hands[i].indexTip.vx, hands[i].indexTip.vy)]]
          /\ hist' = [hist EXCEPT !.lastOp = "physics", !.steps = Append(@, "physics"),
                                  !.physicsInput = hands, !.consumed = Min(@ + 1, 2),
                                  !.prevPhysics = physics, !.stepDt = dt,
                                  !.held = [i \in Slots |->
                                      IF hands[i].gesture = "PINCH"
                                      THEN Min(@[i] + 1, HoldTicks) ELSE 0],
                                  !.simTime = [i \in Slots |->
                                      IF hands[i].gesture = "PINCH" THEN 0
                                      ELSE IF AtRest(physics[i]) THEN @[i]
                                      ELSE Min(@[i] + dt, SettleTime(params))]]
    /\ pc' = NextPc("physics")
    /\ pending' = StillPending(pc')
    /\ UNCHANGED <<handsState, handData, videoTime, lastVideoTime, loopAlive, lastResults,
                   params, fboRead, fboWrite, tex, uSmearTexture, renderTarget, tick, clockDelta, life>>

\* the texture the smear pass samples, and the target it renders into
SmearSource(r, w) == r

SmearTarget(r, w) == w

\* how long a cell is followed after its last brush: 20 / decay smear passes
DecayTicks(p) == (20 * One) \div p.smearDecayTime

\* 2. RENDER SMEAR PASS; undef is what normalize() yields on a zero vector
FrameSmear(undef) ==
    /\ pc = "smear"
    /\ smearUniforms' =
          [smearUniforms EXCEPT !.uLastFrame = SmearSource(fboRead, fboWrite),
                                !.uDecay = params.smearDecayTime,
                                !.uRadius = params.smearRadius,
                                !.uIntensity = params.smearIntensity]
    /\ renderTarget' = SmearTarget(fboRead, fboWrite)
    /\ LET source == tex[smearUniforms'.uLastFrame]
       IN /\ tex' = [tex EXCEPT ![renderTarget'] =
                        [c \in Cells |-> SmearCell(source[c], CellUV[c], smearUniforms', undef)]]
          /\ hist' = [hist EXCEPT
                        !.lastOp = "smear", !.steps = Append(@, "smear"),
                        !.sampled = smearUniforms'.uLastFrame, !.rendered = renderTarget',
                        !.prevTex = source,
                        !.unbrushed = [c \in Cells |->
                            IF TotalBrush(smearUniforms', CellUV[c]) > 0 THEN 0
                            ELSE Min(@[c] + 1, DecayTicks(params))]]
    /\ pc' = NextPc("smear")
    /\ pending' = StillPending(pc')
    /\ UNCHANGED <<handsState, handData, videoTime, lastVideoTime, loopAlive, lastResults,
                   params, physics, fboRead, fboWrite, uSmearTexture, stretchUniforms, tick, clockDelta, life>>

\* Swap Buffers: the new values of (fboRead, fboWrite)
SwappedAliased(r, w) == <<w, w>>

Swapped(r, w) == <<w, r>>

FrameSwap ==
    /\ pc = "swap"
    /\ fboRead' = Swapped(fboRead, fboWrite)[1]
    /\ fboWrite' = Swapped(fboRead, fboWrite)[2]
    /\ hist' = [hist EXCEPT !.lastOp = "swap", !.steps = Append(@, "swap"),
                            !.swaps = Min(@ + 1, 2)]
    /\ pc' = NextPc("swap")
    /\ pending' = StillPending(pc')
    /\ UNCHANGED <<handsState, handData, videoTime, lastVideoTime, loopAlive, lastResults,
                   params, physics, tex, smearUniforms, uSmearTexture, stretchUniforms,
                   renderTarget, tick, clockDelta, life>>

\* 3. RENDER MAIN SCENE: the texture bound as uSmearTexture
CompositeTextureStale(r, w) == w

CompositeTexture(r, w) == r

FrameComposite ==
    /\ pc = "composite"
    /\ renderTarget' = 0
    /\ uSmearTexture' = CompositeTexture(fboRead, fboWrite)
    /\ hist' = [hist EXCEPT !.lastOp = "composite", !.steps = Append(@, "composite")]
    /\ pc' = NextPc("composite")
    /\ pending' = StillPending(pc')
    /\ UNCHANGED <<handsState, handData, videoTime, lastVideoTime, loopAlive, lastResults,
                   params, physics, fboRead, fboWrite, tex, smearUniforms, stretchUniforms,
                   tick, clockDelta, life>>

UseFramePhysics == \E delta \in Deltas : FramePhysics(delta)

\* the callback on a display that runs at a steady rate
SteadyFramePhysics == FramePhysics(clockDelta)

UseFrameSmear == \E undef \in UndefVecs : FrameSmear(undef)

----------------------------------------------------------------------------
(* The pipeline: the detect loop and the render loop on the display's frames *)

Next ==
    \/ AnimationFrame
    \/ CameraFrame
    \/ DetectSkip
    \/ DetectSome
    \/ AllocateFBO
    \/ FrameSkip
    \/ UseFramePhysics
    \/ UseFrameSmear
    \/ FrameSwap
    \/ FrameComposite

Spec == Init /\ [][Next]_vars

----------------------------------------------------------------------------
(* The detect loop alone, on every frame of Frames *)

NextGesture ==
    \/ DetectLoopFrame
    \/ CameraFrame
    \/ DetectSkip
    \/ Detect

SpecGesture == Init /\ [][NextGesture]_vars

(* The detect loop alone, fed results outside the vision task's contract too *)

NextMalformed ==
    \/ DetectLoopFrame
    \/ CameraFrame
    \/ DetectSkip
    \/ DetectAny

SpecMalformed == Init /\ [][NextMalformed]_vars

(* WebcamHandler from its mount on: initVision, the detect loop it starts, and the
   cleanup at any point between them *)

InitLifecycle ==
    /\ handsState = [i \in Slots |-> InitialHandState]
    /\ handData = [i \in Slots |-> InactiveHandPoint]
    /\ videoTime = 0
    /\ lastVideoTime = -1
    /\ loopAlive = FALSE
    /\ lastResults = <<>>
    /\ params = DEFAULT_PARAMS
    /\ physics = [i \in Slots |-> InitialPhysics]
    /\ fboRead = 0
    /\ fboWrite = 0
    /\ tex = [t \in Targets |-> [c \in Cells |-> EmptyCell]]
    /\ smearUniforms = InitialSmearUniforms
    /\ uSmearTexture = 0
    /\ stretchUniforms = InitialStretchUniforms
    /\ renderTarget = 0
    /\ pc = "idle"
    /\ pending = {}
    /\ tick = 0
    /\ clockDelta = 160
    /\ life = InitialLife
    /\ hist = InitialHist

NextLifecycle ==
    \/ Start
    \/ CameraResolved
    \/ PlayResolved
    \/ FilesetResolved
    \/ LandmarkerResolved
    \/ InitRejected
    \/ Unmount
    \/ DetectLoopFrame
    \/ CameraFrame
    \/ DetectSkip
    \/ DetectSome

SpecLifecycle == InitLifecycle /\ [][NextLifecycle]_vars

----------------------------------------------------------------------------
(* The detect loop while the hands hold still: after two classifications of any  *)
(* results, every camera frame yields the same results again                    *)

\* a display frame begins for the loops given, however many came before
FreeFrame(loops) ==
    /\ pending = {} /\ pc = "idle"
    /\ pending' = loops \ (IF loopAlive THEN {} ELSE {"detect"})
    /\ hist' = [hist EXCEPT !.lastOp = "raf", !.detectRan = "no", !.steps = <<>>,
                            !.swaps = 0]
    /\ UNCHANGED <<handsState, handData, videoTime, lastVideoTime, loopAlive, lastResults,
                   params, physics, fboRead, fboWrite, tex, smearUniforms, uSmearTexture,
                   stretchUniforms, renderTarget, pc, tick, clockDelta, life>>

FreeDetectFrame == FreeFrame({"detect"})

\* the camera delivers frames until the same results came SteadyTicks times in a row
SteadyCamera == hist.steady < SteadyTicks /\ CameraFrame

DetectSteady ==
    IF hist.published < 2
    THEN \E results \in SteadyResults : DetectClassify(results)
    ELSE DetectClassify(lastResults)

NextSteady ==
    \/ FreeDetectFrame
    \/ SteadyCamera
    \/ DetectSkip
    \/ DetectSteady

SpecSteady == Init /\ [][NextSteady]_vars

----------------------------------------------------------------------------
(* The hands leave: after one classification of any results, every camera frame *)
(* shows no hand; both loops run on every display frame, in either order       *)

\* a display frame begins for both loops, the camera having delivered a new frame
\* (it does until QuietTicks classifications in a row found no hand)
QuietFrame ==
    /\ pending = {} /\ pc = "idle"
    /\ pending' = {"frame", "detect"} \ (IF loopAlive THEN {} ELSE {"detect"})
    /\ videoTime' = IF hist.quiet < QuietTicks THEN videoTime + 1 ELSE videoTime
    /\ hist' = [hist EXCEPT !.lastOp = "raf", !.detectRan = "no", !.steps = <<>>,
                            !.swaps = 0]
    /\ UNCHANGED <<handsState, handData, lastVideoTime, loopAlive, lastResults,
                   params, physics, fboRead, fboWrite, tex, smearUniforms, uSmearTexture,
                   stretchUniforms, renderTarget, pc, tick, clockDelta, life>>

DetectIdle ==
    IF hist.published < 1
    THEN \E results \in PipelineResults : DetectClassify(results)
    ELSE DetectClassify(<<>>)

InitIdle ==
    /\ handsState = [i \in Slots |-> InitialHandState]
    /\ handData = [i \in Slots |-> InactiveHandPoint]
    /\ videoTime = 0
    /\ lastVideoTime = -1
    /\ loopAlive = TRUE
    /\ lastResults = <<>>
    /\ params = DEFAULT_PARAMS
    /\ physics = [i \in Slots |-> InitialPhysics]
    /\ fboRead = 1
    /\ fboWrite = 2
    /\ tex = [t \in Targets |-> [c \in Cells |-> EmptyCell]]
    /\ smearUniforms = InitialSmearUniforms
    /\ uSmearTexture = 0
    /\ stretchUniforms = InitialStretchUniforms
    /\ renderTarget = 0
    /\ pc = "idle"
    /\ pending = {}
    /\ tick = 0
    /\ clockDelta = 160
    /\ life = MountedLife
    /\ hist = InitialHist

NextIdle ==
    \/ QuietFrame
    \/ DetectSkip
    \/ DetectIdle
    \/ SteadyFramePhysics
    \/ UseFrameSmear
    \/ FrameSwap
    \/ FrameComposite

SpecIdle == InitIdle /\ [][NextIdle]_vars

----------------------------------------------------------------------------
(* The smear field under arbitrary HandData and parameters of the documented ranges *)

Tip(x, y, vx, vy) == [x |-> x, y |-> y, vx |-> vx, vy |-> vy]

HandPointWithTip(t) == [InactiveHandPoint EXCEPT !.indexTip = t]

StillTip == Tip(5000, 5000, 0, 0)

\* fingertips of hand 0: at rest, at exactly the stroke threshold 0.02, stroking on, beside and far
\* from the first cell, and one faster than the speed channel can hold
Hand0Tips ==
    {StillTip, Tip(5000, 5000, 200, 0), Tip(5000, 5000, 5000, 0),
     Tip(5000, 5000, 0, 30000), Tip(6000, 5000, 5000, 0), Tip(9000, 9000, 5000, 0)}

\* fingertips of hand 1: at rest, or stroking the first cell the opposite way
Hand1Tips == {StillTip, Tip(5000, 5000, -5000, 0)}

FieldHands ==
    {[i \in Slots |-> IF i = 0 THEN HandPointWithTip(t0) ELSE HandPointWithTip(t1)] :
        t0 \in Hand0Tips, t1 \in Hand1Tips}

\* fingertips that leave no brush weight on any cell at the default radius
NoBrushHands ==
    {[i \in Slots |-> IF i = 0 THEN HandPointWithTip(t0) ELSE HandPointWithTip(StillTip)] :
        t0 \in {StillTip, Tip(5000, 5000, 100, 100), Tip(9000, 9000, 5000, 0)}}

SmearParams(intensity, decay, radius) ==
    [reboundElasticity |-> 9000, smearIntensity |-> intensity,
     smearDecayTime |-> decay, smearRadius |-> radius]

\* the ends of the sliders' ranges (intensity 0..2, decay 0.001..0.1, radius 0.05..0.4)
FieldParams ==
    {DEFAULT_PARAMS, SmearParams(20000, 10, 4000), SmearParams(0, 1000, 500),
     SmearParams(20000, 1000, 500), SmearParams(1000, 10, 1500)}

\* onHandUpdate(data): App stores the published pair
OnHandUpdate(data) ==
    /\ pc = "idle"
    /\ hist.handUpdates < MaxHandUpdates
    /\ handData' = data
    /\ hist' = [hist EXCEPT !.lastOp = "handupdate", !.prevData = handData,
                            !.consumed = 0, !.handUpdates = @ + 1]
    /\ UNCHANGED <<handsState, videoTime, lastVideoTime, loopAlive, lastResults, params,
                   physics, fboRead, fboWrite, tex, smearUniforms, uSmearTexture,
                   stretchUniforms, renderTarget, pc, pending, tick, clockDelta, life>>

SetHands == \E data \in FieldHands : OnHandUpdate(data)

\* the render loop on its own
RenderLoopFrame == BeginFrame({"frame"})

InitField ==
    /\ handsState = [i \in Slots |-> InitialHandState]
    /\ handData = [i \in Slots |-> InactiveHandPoint]
    /\ videoTime = 0
    /\ lastVideoTime = -1
    /\ loopAlive = TRUE
    /\ lastResults = <<>>
    /\ params \in FieldParams
    /\ physics = [i \in Slots |-> InitialPhysics]
    /\ fboRead = 0
    /\ fboWrite = 0
    /\ tex = [t \in Targets |-> [c \in Cells |-> EmptyCell]]
    /\ smearUniforms = InitialSmearUniforms
    /\ uSmearTexture = 0
    /\ stretchUniforms = InitialStretchUniforms
    /\ renderTarget = 0
    /\ pc = "idle"
    /\ pending = {}
    /\ tick = 0
    /\ clockDelta = 160
    /\ life = MountedLife
    /\ hist = InitialHist

NextField ==
    \/ RenderLoopFrame
    \/ SetHands
    \/ AllocateFBO
    \/ FrameSkip
    \/ UseFramePhysics
    \/ UseFrameSmear
    \/ FrameSwap
    \/ FrameComposite

SpecField == InitField /\ [][NextField]_vars

----------------------------------------------------------------------------
(* The same loop under parameters outside the ranges of the sliders *)

\* elasticity 1.2, intensity -1, decay -0.5, decay 2 with radius 1
OutOfRangeParams ==
    {[DEFAULT_PARAMS EXCEPT !.reboundElasticity = 12000],
     [DEFAULT_PARAMS EXCEPT !.smearIntensity = -10000],
     [DEFAULT_PARAMS EXCEPT !.smearDecayTime = -5000],
     [DEFAULT_PARAMS EXCEPT !.smearDecayTime = 20000, !.smearRadius = 10000]}

InitAnyParams ==
    /\ handsState = [i \in Slots |-> InitialHandState]
    /\ handData = [i \in Slots |-> InactiveHandPoint]
    /\ videoTime = 0
    /\ lastVideoTime = -1
    /\ loopAlive = TRUE
    /\ lastResults = <<>>
    /\ params \in OutOfRangeParams
    /\ physics = [i \in Slots |-> InitialPhysics]
    /\ fboRead = 0
    /\ fboWrite = 0
    /\ tex = [t \in Targets |-> [c \in Cells |-> EmptyCell]]
    /\ smearUniforms = InitialSmearUniforms
    /\ uSmearTexture = 0
    /\ stretchUniforms = InitialStretchUniforms
    /\ renderTarget = 0
    /\ pc = "idle"
    /\ pending = {}
    /\ tick = 0
    /\ clockDelta = 160
    /\ life = MountedLife
    /\ hist = InitialHist

SpecAnyParams == InitAnyParams /\ [][NextField]_vars

----------------------------------------------------------------------------
(* Decay of cells that are left alone: the field starts from stored strokes and *)
(* the render loop runs for as long as anything changes                         *)

\* stored strokes: full, half and barely visible intensity at speeds 0, 0.5 and 1
DecayCells ==
    {[r |-> 10000, g |-> 5000, b |-> speed, a |-> alpha] :
        speed \in {0, 5000, 10000}, alpha \in {10000, 60}}

\* decay rates 0.01, 0.05 (the default), 0.1, and 2.0 from beyond the slider
DecayParams ==
    {SmearParams(8000, 100, 1500), DEFAULT_PARAMS, SmearParams(8000, 1000, 1500),
     SmearParams(8000, 20000, 1500)}

\* a display frame of the render loop, however many came before
FreeRenderFrame ==
    /\ pending = {} /\ pc = "idle"
    /\ pending' = {"frame"}
    /\ hist' = [hist EXCEPT !.lastOp = "raf", !.detectRan = "no", !.steps = <<>>,
                            !.swaps = 0]
    /\ UNCHANGED <<handsState, handData, videoTime, lastVideoTime, loopAlive, lastResults,
                   params, physics, fboRead, fboWrite, tex, smearUniforms, uSmearTexture,
                   stretchUniforms, renderTarget, pc, tick, clockDelta, life>>

InitDecay ==
    /\ handsState = [i \in Slots |-> InitialHandState]
    /\ handData \in NoBrushHands
    /\ videoTime = 0
    /\ lastVideoTime = -1
    /\ loopAlive = TRUE
    /\ lastResults = <<>>
    /\ params \in DecayParams
    /\ physics = [i \in Slots |-> InitialPhysics]
    /\ fboRead = 1
    /\ fboWrite = 2
    /\ \E cell \in DecayCells :
          tex = [t \in Targets |->
                    IF t = 1 THEN [c \in Cells |-> IF c = 1 THEN cell
                                                   ELSE [r |-> 0, g |-> 10000, b |-> 2500, a |-> 3000]]
                    ELSE [c \in Cells |-> EmptyCell]]
    /\ smearUniforms = [InitialSmearUniforms EXCEPT !.uLastFrame = 2,
                                                    !.uDecay = params.smearDecayTime,
                                                    !.uRadius = params.smearRadius,
                                                    !.uIntensity = params.smearIntensity]
    /\ uSmearTexture = 1
    /\ stretchUniforms = InitialStretchUniforms
    /\ renderTarget = 0
    /\ pc = "idle"
    /\ pending = {}
    /\ tick = 0
    /\ clockDelta = 160
    /\ life = MountedLife
    /\ hist = [InitialHist EXCEPT !.sampled = 2, !.rendered = 1]

NextDecay ==
    \/ FreeRenderFrame
    \/ UseFramePhysics
    \/ UseFrameSmear
    \/ FrameSwap
    \/ FrameComposite

SpecDecay == InitDecay /\ [][NextDecay]_vars

----------------------------------------------------------------------------
(* The spring of one hand: a pinch is held, dragged and released, and the render *)
(* loop runs at a steady rate for as long as anything changes                    *)

\* a HandPoint with gesture g at (x, y), fingertip at rest
HandPointAt(g, x, y) == [InactiveHandPoint EXCEPT !.gesture = g, !.x = x, !.y = y, !.z = 5000]

\* where the pinch starts
GrabPoint == Vec(5000, 5000)

\* where the pinched hand is dragged: 0.3 to the right, 0.2 left and 0.4 down, and
\* 0.003 to the right (below the snap threshold)
DragPoints == {Vec(8000, 5000), Vec(3000, 9000), Vec(5030, 5000)}

\* rebound elasticities 0, 0.5, 0.9 (the default) and 1
SpringParams ==
    {[DEFAULT_PARAMS EXCEPT !.reboundElasticity = e] : e \in {0, 5000, 9000, 10000}}

\* steady frame periods: 60 Hz, 30 Hz, and 5 Hz (clamped to 0.1 s by useFrame)
SteadyDeltas == {160, 330, 2000}

\* the pinched hand moves after the first tick of the drag
DragHand ==
    /\ handData[0].gesture = "PINCH" /\ hist.held[0] = 1 /\ hist.handUpdates = 0
    /\ \E q \in DragPoints : OnHandUpdate([handData EXCEPT ![0].x = q.x, ![0].y = q.y])

\* the hand lets go once the pinch has been held for HoldTicks ticks
ReleaseHand ==
    /\ handData[0].gesture = "PINCH" /\ hist.held[0] = HoldTicks
    /\ \E g \in {"NONE", "PALM"} : OnHandUpdate([handData EXCEPT ![0].gesture = g])

InitSpring ==
    /\ handsState = [i \in Slots |-> InitialHandState]
    /\ handData = [i \in Slots |-> IF i = 0 THEN HandPointAt("PINCH", GrabPoint.x, GrabPoint.y)
                                    ELSE InactiveHandPoint]
    /\ videoTime = 0
    /\ lastVideoTime = -1
    /\ loopAlive = TRUE
    /\ lastResults = <<>>
    /\ params \in SpringParams
    /\ physics = [i \in Slots |-> InitialPhysics]
    /\ fboRead = 1
    /\ fboWrite = 2
    /\ tex = [t \in Targets |-> [c \in Cells |-> EmptyCell]]
    /\ smearUniforms = InitialSmearUniforms
    /\ uSmearTexture = 0
    /\ stretchUniforms = InitialStretchUniforms
    /\ renderTarget = 0
    /\ pc = "idle"
    /\ pending = {}
    /\ tick = 0
    /\ clockDelta \in SteadyDeltas
    /\ life = MountedLife
    /\ hist = InitialHist

\* display frames go on; a pinch held for HoldTicks ticks is let go before the next
HoldFrame ==
    /\ handData[0].gesture = "PINCH" => hist.held[0] < HoldTicks
    /\ FreeRenderFrame

NextSpring ==
    \/ HoldFrame
    \/ DragHand
    \/ ReleaseHand
    \/ SteadyFramePhysics
    \/ UseFrameSmear
    \/ FrameSwap
    \/ FrameComposite

SpecSpring == InitSpring /\ [][NextSpring]_vars

----------------------------------------------------------------------------
(* Drags: the render loop under published hands that pinch, move and let go *)

\* where a pinched hand is dragged from the grab point
DragPoint == Vec(8000, 4000)

\* hand 0 pinching at the grab point or at the drag point, or open at either;
\* hand 1 absent or pinching
DragHands ==
    {[i \in Slots |-> IF i = 0 THEN h0 ELSE h1] :
        h0 \in {HandPointAt("PINCH", GrabPoint.x, GrabPoint.y),
                HandPointAt("PINCH", DragPoint.x, DragPoint.y),
                HandPointAt("NONE", DragPoint.x, DragPoint.y),
                HandPointAt("PALM", GrabPoint.x, GrabPoint.y)},
        h1 \in {InactiveHandPoint, HandPointAt("PINCH", 2000, 2000)}}

\* a spring one 60 Hz tick after the release of a stretch of (0.3, -0.1)
Rebounding ==
    PhysicsUpdate([anchorPoint |-> GrabPoint, currentStretch |-> Vec(3000, -1000),
                   velocity |-> Vec(0, 0), isDragging |-> TRUE],
                  HandPointAt("NONE", DragPoint.x, DragPoint.y), "NONE", DEFAULT_PARAMS, 160)

MoveHands == \E data \in DragHands : OnHandUpdate(data)

InitDrag ==
    /\ handsState = [i \in Slots |-> InitialHandState]
    /\ handData \in DragHands
    /\ videoTime = 0
    /\ lastVideoTime = -1
    /\ loopAlive = TRUE
    /\ lastResults = <<>>
    /\ params = DEFAULT_PARAMS
    /\ physics \in {[i \in Slots |-> IF i = 0 THEN ph ELSE InitialPhysics] :
                       ph \in {InitialPhysics, Rebounding}}
    /\ fboRead = 0
    /\ fboWrite = 0
    /\ tex = [t \in Targets |-> [c \in Cells |-> EmptyCell]]
    /\ smearUniforms = InitialSmearUniforms
    /\ uSmearTexture = 0
    /\ stretchUniforms = InitialStretchUniforms
    /\ renderTarget = 0
    /\ pc = "idle"
    /\ pending = {}
    /\ tick = 0
    /\ clockDelta = 160
    /\ life = MountedLife
    /\ hist = InitialHist

NextDrag ==
    \/ RenderLoopFrame
    \/ MoveHands
    \/ AllocateFBO
    \/ FrameSkip
    \/ UseFramePhysics
    \/ UseFrameSmear
    \/ FrameSwap
    \/ FrameComposite

SpecDrag == InitDrag /\ [][NextDrag]_vars

----------------------------------------------------------------------------
(* Properties *)

\* squared distance between landmarks j and k of a frame
DistSq(f, j, k) ==
    (Landmark(f, j).x - Landmark(f, k).x) * (Landmark(f, j).x - Landmark(f, k).x)
      + (Landmark(f, j).y - Landmark(f, k).y) * (Landmark(f, j).y - Landmark(f, k).y)

\* thumb tip closer than 0.05 to the index tip
PinchCriterion(f) == DistSq(f, 4, 8) < 500 * 500

\* all five tips farther from the wrist than 1.1 x their joints, back of the hand shown
OpenPalmCriterion(f) ==
    /\ \A fin \in FingersIndices : 100 * DistSq(f, fin.tip, 0) > 121 * DistSq(f, fin.pip, 0)
    /\ IF f.hand = "Left" THEN CrossZ(f) < -200000 ELSE CrossZ(f) > 200000

\* the slots of the latest classification that had a landmark frame / had none
Occupied == {i \in Slots : i < Len(lastResults)}
Unoccupied == {i \in Slots : i >= Len(lastResults)}

\* C1: after a classification, every occupied slot's gesture is PINCH when the pinch
\* criterion holds (also when the open-palm criterion holds with it), else PALM when
\* the open-palm criterion holds, else NONE; the published record carries the same.
C1_GesturePriority ==
    hist.lastOp = "classify" =>
        \A i \in Occupied :
            LET f == lastResults[i + 1]
                expected == IF PinchCriterion(f) THEN "PINCH"
                            ELSE IF OpenPalmCriterion(f) THEN "PALM" ELSE "NONE"
            IN handsState[i].gesture = expected /\ handData[i].gesture = expected

\* a frame meeting both criteria was classified, as PINCH
C1_Witness ==
    /\ hist.lastOp = "classify"
    /\ \E i \in Occupied :
          /\ PinchCriterion(lastResults[i + 1]) /\ OpenPalmCriterion(lastResults[i + 1])
          /\ handData[i].gesture = "PINCH"
    /\ \E i \in Occupied :
          /\ ~PinchCriterion(lastResults[i + 1]) /\ handData[i].gesture = "PALM"

\* C2: the hand state and the published HandData always have exactly the two slots
\* 0 and 1, every gesture is one of NONE, PALM, PINCH, and after a classification a
\* slot without a detected hand is still there and reports NONE.
C2_TwoSlots ==
    /\ DOMAIN handsState = {0, 1}
    /\ DOMAIN handData = {0, 1}
    /\ \A i \in {0, 1} :
          /\ handsState[i].gesture \in {"NONE", "PALM", "PINCH"}
          /\ handData[i].gesture \in {"NONE", "PALM", "PINCH"}
    /\ hist.lastOp = "classify" =>
          \A i \in Unoccupied : handData[i].gesture = "NONE" /\ handsState[i].gesture = "NONE"

\* a slot that held a gesture lost its hand in the latest classification
C2_Witness ==
    /\ hist.lastOp = "classify"
    /\ \E i \in Unoccupied : hist.prevHands[i].gesture # "NONE"
    /\ \E i \in Occupied : handData[i].gesture # "NONE"

\* C3: after a classification, every slot without a landmark frame has gesture NONE,
\* proximity 0.9 times what it was, fingertip velocity (0,0) both stored and
\* published, and its smoothed position and stored fingertip position unchanged.
C3_LostSlotDecays ==
    hist.lastOp = "classify" =>
        \A i \in Unoccupied :
            LET before == hist.prevHands[i]
            IN /\ handsState[i].gesture = "NONE"
               /\ handsState[i].smoothedZ = (9 * before.smoothedZ) \div 10
               /\ handsState[i].indexTipState.vx = 0 /\ handsState[i].indexTipState.vy = 0
               /\ handData[i].indexTip.vx = 0 /\ handData[i].indexTip.vy = 0
               /\ handData[i].z = handsState[i].smoothedZ
               /\ handsState[i].smoothedPos = before.smoothedPos
               /\ handsState[i].indexTipState.x = before.indexTipState.x
               /\ handsState[i].indexTipState.y = before.indexTipState.y
               /\ handData[i].x = before.smoothedPos.x /\ handData[i].y = before.smoothedPos.y

\* a slot that had proximity, velocity and a moved position lost its hand
C3_Witness ==
    /\ hist.lastOp = "classify"
    /\ \E i \in Unoccupied :
          /\ hist.prevHands[i].smoothedZ > 0
          /\ hist.prevHands[i].indexTipState.vx # 0
          /\ hist.prevHands[i].smoothedPos # InitialHandState.smoothedPos
          /\ handsState[i].smoothedZ > 0

\* C4 (as claimed): after detect has met a hand whose landmark list is short or whose
\* handedness entry is missing, that slot's gesture is NONE, every slot was processed
\* and published, and the loop is still rescheduled.
C4_MalformedIsNoGesture ==
    (hist.lastOp \in {"classify", "throw"}
       /\ \E i \in Occupied : Throws(lastResults[i + 1])) =>
        /\ loopAlive
        /\ hist.lastOp = "classify"
        /\ \A i \in Occupied : Throws(lastResults[i + 1]) => handsState[i].gesture = "NONE"
        /\ \A i \in Slots : handData[i] = HandPointOf(handsState[i])

\* the sections of one useFrame call, in the order of the source
FrameSteps == <<"physics", "smear", "swap", "composite">>

IsPrefix(a, b) == Len(a) <= Len(b) /\ SubSeq(b, 1, Len(a)) = a

\* the uniforms carry exactly the hands h
UniformsCarry(h) ==
    \A i \in Slots :
        /\ smearUniforms.uIndexPos[i] = Vec(h[i].indexTip.x, h[i].indexTip.y)
        /\ smearUniforms.uIndexVel[i] = Vec(h[i].indexTip.vx, h[i].indexTip.vy)
        /\ stretchUniforms.uHandGesture[i] = GestureInt(h[i].gesture)
        /\ stretchUniforms.uHandZ[i] = h[i].z
        /\ stretchUniforms.uHandPos[i] = Vec(h[i].x, One - h[i].y)

\* C5 (as claimed): in a display frame whose detect call found no new camera frame,
\* both published hands are unoccupied (gesture NONE, fingertip velocity 0), and that
\* is what the physics step of the frame reads.
C5_MissingFrameUnoccupied ==
    hist.detectRan = "skip" =>
        /\ \A i \in Slots :
              /\ handData[i].gesture = "NONE"
              /\ handData[i].indexTip.vx = 0 /\ handData[i].indexTip.vy = 0
        /\ hist.lastOp = "physics" =>
              \A i \in Slots : hist.physicsInput[i].gesture = "NONE"

\* C5 (amended): a detect call that finds no new camera frame changes neither the hand
\* slots nor the published HandData and stays scheduled; the render callback of that
\* display frame still runs and its uniforms carry the held HandData.
C5_MissingFrameHolds ==
    /\ hist.lastOp = "skip" =>
          handsState = hist.prevHands /\ handData = hist.prevData /\ loopAlive
    /\ (hist.detectRan = "skip" /\ hist.lastOp = "physics") => UniformsCarry(handData)
    /\ (hist.detectRan = "skip" /\ "frame" \in pending /\ pc = "idle" /\ fboRead # 0) =>
          ENABLED UseFramePhysics

\* the render callback consumed held data that is not neutral
C5_Witness ==
    /\ hist.detectRan = "skip" /\ hist.lastOp = "physics"
    /\ handData[0].gesture # "NONE"
    /\ handData[0].indexTip.vx # 0
    /\ handData[0].z > 0

\* C6 (as claimed): the sections of a tick run in the order physics, field update,
\* swap, composite; a physics update happens only in a display frame in which a
\* classification has run before it; no classification result is read by two updates.
C6_StrictTickOrder ==
    /\ IsPrefix(hist.steps, FrameSteps)
    /\ Len(hist.steps) > 0 => hist.detectRan = "classify"
    /\ hist.consumed <= 1

\* C6 (amended): inside every useFrame call the sections run in the order physics,
\* field update, swap, composite, and the physics section reads the HandData
\* published last, whichever display frame published it.
C6_FrameOrder ==
    /\ IsPrefix(hist.steps, FrameSteps)
    /\ pc = "idle" => hist.steps \in {<<>>, FrameSteps}
    /\ hist.lastOp = "physics" =>
          /\ UniformsCarry(handData)
          /\ \A i \in Slots :
                /\ stretchUniforms.uStretchVector[i] = physics[i].currentStretch
                /\ stretchUniforms.uStretchAnchor[i] = physics[i].anchorPoint
                /\ physics[i].isDragging = (handData[i].gesture = "PINCH")

\* a whole callback ran on a classification of an earlier display frame, read twice
C6_Witness ==
    /\ hist.steps = FrameSteps
    /\ hist.detectRan # "classify"
    /\ hist.consumed = 2
    /\ hist.published > 0

\* C7: once allocated, fboRead and fboWrite are the two distinct render targets; a
\* useFrame call swaps them exactly once, the swap exchanges the roles of the target
\* rendered and the target sampled, and the smear pass never renders into the target
\* bound as uLastFrame.
C7_PingPong ==
    /\ (fboRead = 0) = (fboWrite = 0)
    /\ fboRead # 0 => (fboRead # fboWrite /\ {fboRead, fboWrite} = Targets)
    /\ hist.swaps <= 1
    /\ hist.lastOp = "composite" => hist.swaps = 1
    /\ hist.lastOp = "swap" => (fboRead = hist.rendered /\ fboWrite = hist.sampled)
    /\ hist.rendered # 0 => hist.rendered # hist.sampled
    /\ pc = "swap" => renderTarget # smearUniforms.uLastFrame

\* the second swap of a run: the targets are back in their first roles
C7_Witness ==
    /\ hist.lastOp = "swap" /\ tick >= 2
    /\ fboRead = 1 /\ fboWrite = 2
    /\ \E c \in Cells : tex[fboRead][c].a > 0

\* C8: when uSmearTexture is bound the swap of that call is done and the texture is
\* the target the smear pass of that call rendered; the next smear pass samples that
\* same target as uLastFrame.
C8_CompositeReadsFresh ==
    /\ hist.lastOp = "composite" =>
          /\ hist.steps = FrameSteps
          /\ uSmearTexture = hist.rendered
          /\ uSmearTexture = fboRead
    /\ (hist.lastOp = "smear" /\ uSmearTexture # 0) => hist.sampled = uSmearTexture
    /\ (pc = "idle" /\ uSmearTexture # 0) => uSmearTexture = fboRead

\* a smear pass sampled the generation the composite of the previous call read,
\* and that generation held a stroke
C8_Witness ==
    /\ hist.lastOp = "smear" /\ uSmearTexture # 0
    /\ hist.sampled = uSmearTexture
    /\ \E c \in Cells : hist.prevTex[c].a > 0

\* the generation the composite reads and the next smear pass decays
Current == tex[fboRead]

\* C9: every cell of both generations holds an intensity within [0,1], whatever the
\* fingertips did and for parameters at the ends of their ranges.
C9_IntensityBounded ==
    \A t \in Targets : \A c \in Cells : tex[t][c].a >= 0 /\ tex[t][c].a <= One

\* a brushed cell that already held intensity was raised to exactly 1
C9_Witness ==
    /\ hist.lastOp = "smear"
    /\ \E c \in Cells :
          /\ hist.unbrushed[c] = 0
          /\ hist.prevTex[c].a > 2000
          /\ tex[hist.rendered][c].a = One
          /\ params.smearIntensity > One

\* C10: a smear pass that gives a cell no brush weight never raises its intensity and
\* leaves it either 0 or at least 0.005; after 20 / decay such passes in a row the
\* intensity is exactly 0.
C10_UnbrushedDecays ==
    /\ hist.lastOp = "smear" =>
          \A c \in Cells :
              hist.unbrushed[c] > 0 =>
                  /\ tex[hist.rendered][c].a <= hist.prevTex[c].a
                  /\ tex[hist.rendered][c].a = 0 \/ tex[hist.rendered][c].a >= 50
    /\ \A c \in Cells :
          (fboRead # 0 /\ hist.unbrushed[c] >= DecayTicks(params)) => Current[c].a = 0

\* a cell stored at full intensity and full speed has faded to exactly 0
C10_Witness ==
    /\ hist.lastOp = "smear"
    /\ \E c \in Cells :
          /\ hist.unbrushed[c] > 100
          /\ hist.prevTex[c].a > 0
          /\ hist.prevTex[c].b = One
          /\ tex[hist.rendered][c].a = 0
    /\ params.smearDecayTime = 500

\* the target position HandPhysics.update derives from a HandPoint
TargetOf(h) == Vec(h.x, One - h.y)

\* C11: while a hand's gesture is not PINCH, a rebound never lasts SettleTime (16 /
\* damping seconds of summed dt, hence finitely many ticks): stretch and velocity are
\* both exactly (0,0) before that, and from (0,0) a non-PINCH tick leaves them (0,0).
C11_SpringSettles ==
    \A i \in Slots :
        /\ hist.simTime[i] < SettleTime(params)
        /\ (hist.lastOp = "physics" /\ hist.physicsInput[i].gesture # "PINCH"
               /\ AtRest(hist.prevPhysics[i])) => AtRest(physics[i])

\* a rebound of more than 10 simulated seconds has just been snapped to (0,0)
C11_Witness ==
    /\ hist.lastOp = "physics"
    /\ hist.simTime[0] > 10 * One
    /\ ~AtRest(hist.prevPhysics[0])
    /\ AtRest(physics[0])
    /\ hist.prevPhysics[0].currentStretch # Vec(0, 0)

\* one simulated second, with half a second of tolerance
ReboundSeconds == One + One \div 2

\* C19 (as claimed): on the tick a pinch held for HoldTicks ticks is released, the
\* stretch the spring starts from is the vector from the anchor to the last pinched
\* position; with the default elasticity the rebound is over (stretch exactly 0) by
\* the time the summed dt of its ticks reaches about one second.
C19_ReboundWithinSecond ==
    /\ (hist.lastOp = "physics" /\ hist.physicsInput[0].gesture # "PINCH"
           /\ hist.prevPhysics[0].isDragging) =>
          hist.prevPhysics[0].currentStretch =
              Vec(TargetOf(hist.prevData[0]).x - hist.prevPhysics[0].anchorPoint.x,
                  TargetOf(hist.prevData[0]).y - hist.prevPhysics[0].anchorPoint.y)
    /\ (params.reboundElasticity = DEFAULT_PARAMS.reboundElasticity
           /\ hist.simTime[0] > ReboundSeconds) => physics[0].currentStretch = Vec(0, 0)

\* C12: a physics tick that sees PINCH on a hand that was not dragging sets
\* isDragging, puts the anchor at the target position (x, 1 - y) of that tick, and
\* sets velocity and stretch to (0,0), whatever they were.
C12_DragStart ==
    hist.lastOp = "physics" =>
        \A i \in Slots :
            (hist.physicsInput[i].gesture = "PINCH" /\ ~hist.prevPhysics[i].isDragging) =>
                /\ physics[i].isDragging
                /\ physics[i].anchorPoint =
                      Vec(hist.physicsInput[i].x, One - hist.physicsInput[i].y)
                /\ physics[i].velocity = Vec(0, 0)
                /\ physics[i].currentStretch = Vec(0, 0)

\* a hand pinched again while its spring was still rebounding
C12_Witness ==
    /\ hist.lastOp = "physics"
    /\ hist.physicsInput[0].gesture = "PINCH" /\ ~hist.prevPhysics[0].isDragging
    /\ hist.prevPhysics[0].velocity # Vec(0, 0)
    /\ hist.prevPhysics[0].currentStretch # Vec(0, 0)
    /\ physics[0].anchorPoint # hist.prevPhysics[0].anchorPoint

\* C13: after a physics tick that sees PINCH, the stretch is exactly the target
\* position of that tick minus the anchor, the first tick of the drag included; on a
\* later tick of the drag the anchor is kept and the velocity stays (0,0).
C13_DragStretchDirect ==
    hist.lastOp = "physics" =>
        \A i \in Slots :
            hist.physicsInput[i].gesture = "PINCH" =>
                /\ physics[i].currentStretch =
                      Vec(TargetOf(hist.physicsInput[i]).x - physics[i].anchorPoint.x,
                          TargetOf(hist.physicsInput[i]).y - physics[i].anchorPoint.y)
                /\ hist.prevPhysics[i].isDragging =>
                      /\ physics[i].anchorPoint = hist.prevPhysics[i].anchorPoint
                      /\ physics[i].velocity = Vec(0, 0)

\* a dragging hand whose stretch was already that of a drag is seen at the same place
C13_Witness ==
    /\ hist.lastOp = "physics"
    /\ hist.physicsInput[0].gesture = "PINCH" /\ hist.prevPhysics[0].isDragging
    /\ hist.prevPhysics[0].currentStretch # Vec(0, 0)
    /\ physics[0].currentStretch = hist.prevPhysics[0].currentStretch

\* C14: after a physics tick, isDragging is true exactly when the gesture of that
\* tick was PINCH, so it differs from its value before the tick exactly on a tick
\* that sees PINCH while idle or not PINCH while dragging.
C14_DraggingIffPinch ==
    hist.lastOp = "physics" =>
        \A i \in Slots :
            /\ physics[i].isDragging = (hist.physicsInput[i].gesture = "PINCH")
            /\ (physics[i].isDragging # hist.prevPhysics[i].isDragging) =
                  ((hist.physicsInput[i].gesture = "PINCH") # hist.prevPhysics[i].isDragging)

\* the first tick after a drag that does not see PINCH: dragging ends, the stretch is let go
C14_Witness ==
    /\ hist.lastOp = "physics"
    /\ hist.prevPhysics[0].isDragging /\ hist.physicsInput[0].gesture = "PALM"
    /\ ~physics[0].isDragging
    /\ hist.prevPhysics[0].currentStretch # Vec(0, 0)
    /\ physics[1].isDragging /\ ~hist.prevPhysics[1].isDragging

\* C15 (as claimed): no cell of either generation ever holds an undefined direction:
\* when the brush directions of the two hands cancel (brush weight above 0, summed
\* direction (0,0)), the normalization is skipped and the cell keeps a number in its
\* direction channels.
C15_NoUndefinedDirection ==
    \A t \in Targets : \A c \in Cells : tex[t][c].r # NaN /\ tex[t][c].g # NaN

\* C16 (as claimed): whatever the configured parameters, the damping a physics tick
\* uses is not negative, the decay, radius and intensity a smear pass uses lie within
\* (0, 0.1], [0.05, 0.4] and [0, infinity), and every intensity stays within [0,1].
C16_OutOfRangeClamped ==
    /\ hist.lastOp = "physics" => Damping(params) >= 0
    /\ hist.lastOp = "smear" =>
          /\ smearUniforms.uDecay > 0 /\ smearUniforms.uDecay <= 1000
          /\ smearUniforms.uRadius >= 500 /\ smearUniforms.uRadius <= 4000
          /\ smearUniforms.uIntensity >= 0
    /\ \A t \in Targets : \A c \in Cells : tex[t][c].a >= 0 /\ tex[t][c].a <= One

\* an upper bound of the distance left after n ticks toward a constant target: it
\* starts at most 1 and each tick leaves 0.75 of it, up to the rounding of one step
RECURSIVE ErrBound(_)
ErrBound(n) == IF n = 0 THEN One ELSE (3 * ErrBound(n - 1)) \div 4 + 1

\* c is as close to target as b or closer, and on the same side of it
Toward(b, c, target) ==
    /\ b >= target => (c >= target /\ c <= b)
    /\ b <= target => (c <= target /\ c >= b)

\* C17: a classification moves the smoothed position of every occupied slot toward
\* that tick's target on each coordinate without passing it, leaving at most 0.75 of
\* the distance (plus rounding); after n ticks in a row on the same landmarks (all
\* within [0,1]) the distance is at most 0.75^n, so it falls below any epsilon above
\* the resolution within a number of ticks that depends on epsilon alone.
C17_SmoothedConverges ==
    hist.lastOp = "classify" =>
        \A i \in Occupied :
            LET target == TargetPos(lastResults[i + 1])
                before == hist.prevHands[i].smoothedPos
                after == handsState[i].smoothedPos
            IN /\ Toward(before.x, after.x, target.x)
               /\ Toward(before.y, after.y, target.y)
               /\ 4 * Abs(after.x - target.x) <= 3 * Abs(before.x - target.x) + 4
               /\ 4 * Abs(after.y - target.y) <= 3 * Abs(before.y - target.y) + 4
               /\ handData[i].x = after.x /\ handData[i].y = after.y
               /\ hist.fedInUnit =>
                     /\ Abs(after.x - target.x) <= ErrBound(hist.steady)
                     /\ Abs(after.y - target.y) <= ErrBound(hist.steady)

\* the twentieth tick on the same landmarks: still closing in, within 0.002 of the target
C17_Witness ==
    /\ hist.lastOp = "classify" /\ hist.steady = 20
    /\ 0 \in Occupied
    /\ Abs(handsState[0].smoothedPos.x - TargetPos(lastResults[1]).x)
          < Abs(hist.prevHands[0].smoothedPos.x - TargetPos(lastResults[1]).x)
    /\ Abs(handsState[0].smoothedPos.x - TargetPos(lastResults[1]).x) <= 20

\* C20: every published z lies within [0,1]; as long as every landmark classified
\* so far was within [0,1], every published x and y lies within [0,1] too.
C20_PublishedInRange ==
    \A i \in Slots :
        /\ handData[i].z >= 0 /\ handData[i].z <= One
        /\ hist.fedInUnit =>
              /\ handData[i].x >= 0 /\ handData[i].x <= One
              /\ handData[i].y >= 0 /\ handData[i].y <= One

\* a hand spanning the image was held still: x reached the edge 0 and z is near 1
C20_Witness ==
    /\ hist.fedInUnit
    /\ lastResults = <<EdgeFrame>>
    /\ handData[0].x = 0 /\ handData[0].y = 0
    /\ handData[0].z > 9800
    /\ TargetZUnclamped(EdgeFrame) > One

\* C18 (as claimed): in every display frame whose classification found no hand, both
\* published hands report NONE with a z not above the one before, and the field
\* update of that display frame raised the intensity of no cell.
C18_QuietTicksFade ==
    (hist.detectRan = "classify" /\ lastResults = <<>>) =>
        /\ \A i \in Slots :
              handData[i].gesture = "NONE" /\ handData[i].z <= hist.prevData[i].z
        /\ Len(hist.steps) >= 2 =>
              \A c \in Cells : tex[hist.rendered][c].a <= hist.prevTex[c].a

\* C18 (amended): while classifications find no hand, both published hands report
\* NONE with fingertip velocity (0,0); each such classification lowers every z that
\* is above 0, and after QuietTicks of them every z is 0 (to the resolution); every
\* field update that reads HandData published by such a classification lowers the
\* intensity of every cell that holds any, and raises none.
C18_QuietFades ==
    /\ hist.quiet >= 1 =>
          \A i \in Slots :
              /\ handData[i].gesture = "NONE"
              /\ handData[i].indexTip.vx = 0 /\ handData[i].indexTip.vy = 0
              /\ handData[i].z >= 0
    /\ (hist.quiet >= 1 /\ hist.lastOp = "classify") =>
          \A i \in Slots :
              /\ handData[i].z <= hist.prevData[i].z
              /\ hist.prevData[i].z > 0 => handData[i].z < hist.prevData[i].z
    /\ hist.quiet >= QuietTicks => \A i \in Slots : handData[i].z <= 1
    /\ (hist.quiet >= 1 /\ hist.lastOp = "smear") =>
          \A c \in Cells :
              /\ tex[hist.rendered][c].a <= hist.prevTex[c].a
              /\ hist.prevTex[c].a > 0 => tex[hist.rendered][c].a < hist.prevTex[c].a

\* the field update after the hundredth classification without hands: z is 0, gestures
\* that were published before are gone, and a stroke is still fading
C18_Witness ==
    /\ hist.quiet = QuietTicks /\ hist.lastOp = "smear"
    /\ \A i \in Slots : handData[i].z = 0
    /\ \E c \in Cells :
          /\ hist.prevTex[c].a > 0
          /\ tex[hist.rendered][c].a < hist.prevTex[c].a
          /\ tex[hist.rendered][c].a > 0

\* the direction a cell's r and g channels decode to (smear.rg * 2.0 - 1.0)
Decoded(cell) == Vec(2 * cell.r - One, 2 * cell.g - One)

\* v has length 1, to within 0.01
IsUnit(v) ==
    /\ v.x # 2 * NaN - One /\ v.y # 2 * NaN - One
    /\ Abs(LengthSq(v) - One * One) <= 2 * One * 100

\* C21 (as claimed): after a smear pass every cell of the generation it wrote holds a
\* speed within [0,1] and direction channels that decode to a vector of length 1,
\* whether the cell was overwritten, partially blended or never brushed.
C21_CellsWellFormed ==
    hist.lastOp = "smear" =>
        \A c \in Cells :
            /\ tex[hist.rendered][c].b >= 0 /\ tex[hist.rendered][c].b <= One
            /\ IsUnit(Decoded(tex[hist.rendered][c]))

\* the speed of the fingertip of hand i, as length(uIndexVel[i])
TipSpeedSq(i) == LengthSq(smearUniforms.uIndexVel[i])

\* the distance of the fingertip of hand i from cell c, squared
TipDistSq(i, c) ==
    LengthSq(Vec(CellUV[c].x - smearUniforms.uIndexPos[i].x,
                 CellUV[c].y - (One - smearUniforms.uIndexPos[i].y)))

\* hand i can put brush weight on cell c: faster than 0.02 and nearer than the radius
Strokes(i, c) ==
    /\ TipSpeedSq(i) > 200 * 200
    /\ TipDistSq(i, c) < smearUniforms.uRadius * smearUniforms.uRadius

\* C22: a smear pass leaves every cell that no hand strokes (each hand at speed 0.02
\* or less, or a radius or more away) with its direction and speed unchanged and with
\* its intensity decayed: previous * (1 - decay / (1 + 2 * speed)), cut to 0 below
\* 0.005, never more than before; a hand at speed 0.02 or less has no brush weight.
C22_SlowHandLeavesCell ==
    hist.lastOp = "smear" =>
        /\ \A i \in Slots : \A c \in Cells :
              TipSpeedSq(i) <= 200 * 200 => Brush(smearUniforms, CellUV[c], i) = 0
        /\ \A c \in Cells :
              (\A i \in Slots : ~Strokes(i, c)) =>
                  LET before == hist.prevTex[c]
                      after == tex[hist.rendered][c]
                      decayed == (before.a * (One - (smearUniforms.uDecay * One)
                                                      \div (One + 2 * before.b))) \div One
                  IN /\ after.r = before.r /\ after.g = before.g /\ after.b = before.b
                     /\ after.a = (IF decayed < 50 THEN 0 ELSE decayed)
                     /\ after.a <= before.a

\* a fingertip resting on a lit cell at exactly speed 0.02: the cell only decayed
C22_Witness ==
    /\ hist.lastOp = "smear"
    /\ TipSpeedSq(0) = 200 * 200 /\ TipDistSq(0, 1) = 0
    /\ TipSpeedSq(1) = 0
    /\ hist.prevTex[1].a > 0 /\ hist.prevTex[1].b > 0
    /\ tex[hist.rendered][1].a < hist.prevTex[1].a
    /\ tex[hist.rendered][1].a > 0

\* C23: a physics tick changes a hand's anchorPoint only when it takes isDragging
\* from false to true; the later ticks of the drag and the ticks of the spring return
\* keep it; and in every state a hand that is dragging has velocity (0,0).
C23_AnchorOnlyAtDragStart ==
    /\ \A i \in Slots : physics[i].isDragging => physics[i].velocity = Vec(0, 0)
    /\ hist.lastOp = "physics" =>
          \A i \in Slots :
              physics[i].anchorPoint # hist.prevPhysics[i].anchorPoint =>
                  (~hist.prevPhysics[i].isDragging /\ physics[i].isDragging)

\* the tick that releases a drag begun away from the centre: the spring starts to
\* move, the anchor stays where the drag began, the hand is elsewhere
C23_Witness ==
    /\ hist.lastOp = "physics"
    /\ ~physics[0].isDragging /\ hist.prevPhysics[0].isDragging
    /\ physics[0].velocity # Vec(0, 0)
    /\ physics[0].anchorPoint = hist.prevPhysics[0].anchorPoint
    /\ physics[0].anchorPoint # InitialPhysics.anchorPoint
    /\ Vec(hist.physicsInput[0].x, One - hist.physicsInput[0].y) # physics[0].anchorPoint

\* C24: a classification that finds a hand for a slot the classification before it
\* left unoccupied (or that no classification has occupied yet) reports the fingertip
\* velocity 0.3 * 50 * (new fingertip - retained fingertip position), the retained
\* position being (0.5,0.5) at first; it is (0,0) only when the two positions are equal.
C24_FirstVelocity ==
    hist.lastOp = "classify" =>
        \A i \in Occupied :
            i >= hist.prevFound =>
                LET retained == hist.prevHands[i].indexTipState
                    tip == Landmark(lastResults[i + 1], 8)
                    first == [vx |-> 15 * (tip.x - retained.x), vy |-> 15 * (tip.y - retained.y)]
                IN /\ handData[i].indexTip.vx = first.vx /\ handData[i].indexTip.vy = first.vy
                   /\ handsState[i].indexTipState.vx = first.vx
                   /\ handsState[i].indexTipState.vy = first.vy
                   /\ (hist.published = 1 => retained.x = 5000 /\ retained.y = 5000)
                   /\ (handData[i].indexTip.vx = 0 /\ handData[i].indexTip.vy = 0)
                          = (tip.x = retained.x /\ tip.y = retained.y)

\* a hand comes back to a slot that lost it, away from where its fingertip was last seen
C24_Witness ==
    /\ hist.lastOp = "classify"
    /\ 0 \in Occupied /\ hist.prevFound = 0
    /\ hist.prevHands[0].indexTipState.x # InitialHandState.indexTipState.x
    /\ hist.prevHands[0].indexTipState.x # Landmark(lastResults[1], 8).x
    /\ handData[0].indexTip.vx # 0

\* C25: once the cleanup has run, whatever initVision was awaiting and however that
\* await ends, none of onVideoReady, onError and onHandUpdate is invoked, detect does
\* not run, and the detect loop has no request outstanding.
C25_SilentAfterCleanup ==
    ~life.isMounted =>
        /\ life.late = {}
        /\ hist.lastOp \notin {"classify", "skip", "throw"}
        /\ ~loopAlive
        /\ "detect" \notin pending

\* the landmarker is created after the cleanup, the video having been reported ready
C25_Witness ==
    /\ ~life.isMounted
    /\ hist.lastOp = "landmarkerResolved"
    /\ life.landmarker = "open"
    /\ "onVideoReady" \in life.called

\* C26 (as claimed): once the cleanup has run and initVision has returned, the
\* camera stream's tracks, if a stream was acquired, are stopped, and the hand
\* landmarker, if one was created, is closed.
C26_ResourcesReleased ==
    (~life.isMounted /\ life.step = "returned") =>
        /\ life.stream # "live"
        /\ life.landmarker # "open"

====
